---- MODULE Spec2Model ----
(***************************************************************************)
(* MCC Market Context API (src/main.py): the request handler               *)
(* get_market_context, the structure detector, the heatmap cluster fetcher *)
(* and the session classifier.                                             *)
(*                                                                         *)
(* Prices are integers; a quotient the code computes with "/" is kept as   *)
(* an exact fraction [num, den], so floating-point rounding and overflow   *)
(* are outside the model.  An Optional value is <<>> (None) or <<v>>.      *)
(***************************************************************************)
EXTENDS Integers, Sequences, FiniteSets, TLC

VARIABLES
    pc,                 \* position of the running operation
    include_coinglass,  \* query parameter of the request
    calls,              \* upstream calls issued so far, in order
    raised,             \* None, or the upstream call whose exception escaped
    o1, o4, oh, o15,    \* None, or the candle series fetched for 1d, 4h, 1h, 15m
    ctx,                \* None, or the outcome of detect_structure_and_liquidity
    hm,                 \* None, or what the heatmap service answered
    cg,                 \* None, or the CoinglassData the cluster fetcher returned
    hour,               \* None, or the UTC hour detect_session read
    response            \* None, or the MccMarketContext returned to the caller

vars == <<pc, include_coinglass, calls, raised, o1, o4, oh, o15, ctx, hm, cg, hour, response>>

-----------------------------------------------------------------------------
(* Bounds of the explored inputs *)

MaxPrice == 3
MaxDaily == 2
Max4h == 3
Max15m == 2
MaxEntries == 4

-----------------------------------------------------------------------------
(* Generic helpers *)

None == <<>>
Some(x) == <<x>>

Ok(v) == <<"ok", v>>
Raise(e) == <<"raise", e>>
IsOk(r) == r[1] = "ok"

Min2(a, b) == IF a <= b THEN a ELSE b

SeqsUpTo(S, n) == UNION {[1..k -> S] : k \in 0..n}

SetMax(S) == CHOOSE m \in S : \A y \in S : y <= m
SetMin(S) == CHOOSE m \in S : \A y \in S : m <= y

\* exact fractions, den > 0
Rat(n, d) == [num |-> n, den |-> d]
RatLT(a, b) == a.num * b.den < b.num * a.den
RatLE(a, b) == a.num * b.den <= b.num * a.den
RatScale(a, p, q) == [num |-> a.num * p, den |-> a.den * q]

-----------------------------------------------------------------------------
(* Candles: [timestamp, open, high, low, close, volume]; Python's c[2], c[3] *)
(* and c[4] are the 3rd, 4th and 5th component.                              *)

IdxHigh == 3
IdxLow == 4
IdxClose == 5

Candle(h, l, c) == <<0, c, h, l, c, 0>>

RECURSIVE Insert(_, _)
Insert(x, s) ==
    IF s = <<>> THEN <<x>>
    ELSE IF x <= Head(s) THEN <<x>> \o s
    ELSE <<Head(s)>> \o Insert(x, Tail(s))

RECURSIVE sorted(_)
sorted(s) == IF s = <<>> THEN <<>> ELSE Insert(Head(s), sorted(Tail(s)))

\* variant: the even case adds the two middle values and does not halve them
median_nodiv(data) ==
    LET s == sorted(data)
        n == Len(s)
        i == n \div 2
    IN  IF n % 2 = 1 THEN Rat(s[i + 1], 1) ELSE Rat(s[i] + s[i + 1], 1)

\* statistics.median of a non-empty list
median(data) ==
    LET s == sorted(data)
        n == Len(s)
        i == n \div 2
    IN  IF n % 2 = 1 THEN Rat(s[i + 1], 1) ELSE Rat(s[i] + s[i + 1], 2)

TimeframeContext(bias, trend, bos, swing_high, swing_low, midline_50, ob_zones, fvg_zones, micro_liquidity, current_price) ==
    [bias |-> bias, trend |-> trend, bos |-> bos, swing_high |-> swing_high,
     swing_low |-> swing_low, midline_50 |-> midline_50, ob_zones |-> ob_zones,
     fvg_zones |-> fvg_zones, micro_liquidity |-> micro_liquidity,
     current_price |-> current_price]

ObZone(type, from_, to, state) == [type |-> type, from_ |-> from_, to |-> to, state |-> state]
FvgZone(from_, to, state) == [from_ |-> from_, to |-> to, state |-> state]
LiquidityLevel(type, price) == [type |-> type, price |-> price]

\* variant: the sum of the swings, not their mean
Midline_sum(swing_high, swing_low) == Rat(swing_high + swing_low, 1)

Midline(swing_high, swing_low) == Rat(swing_high + swing_low, 2)

\* variant: a price equal to the midline counts as discount
Bias_le(latest_price, midline) ==
    IF RatLE(Rat(latest_price, 1), midline) THEN "discount_LONG" ELSE "premium_SHORT"

Bias(latest_price, midline) ==
    IF RatLT(Rat(latest_price, 1), midline) THEN "discount_LONG" ELSE "premium_SHORT"

detect_structure_and_liquidity(ohlcv_1d, ohlcv_4h, ohlcv_1h, ohlcv_15m) ==
    IF ohlcv_15m = <<>> THEN Raise("IndexError")
    ELSE IF ohlcv_1d = <<>> THEN Raise("ValueError")
    ELSE IF ohlcv_4h = <<>> THEN Raise("StatisticsError")
    ELSE
    LET latest_price == ohlcv_15m[Len(ohlcv_15m)][IdxClose]
        swing_high == SetMax({ohlcv_1d[k][IdxHigh] : k \in DOMAIN ohlcv_1d})
        swing_low == SetMin({ohlcv_1d[k][IdxLow] : k \in DOMAIN ohlcv_1d})
        midline == Midline(swing_high, swing_low)
        median_4h == median([k \in DOMAIN ohlcv_4h |-> ohlcv_4h[k][IdxClose]])
        trend_val == IF RatLT(median_4h, Rat(latest_price, 1))
                     THEN "bullish_HH_HL" ELSE "bearish_LH_LL"
        bias == Bias(latest_price, midline)
        bos == IF trend_val = "bullish_HH_HL" THEN "up" ELSE "down"
        price == Rat(latest_price, 1)
    IN  Ok(("1D" :> TimeframeContext(bias, trend_val, bos, Some(swing_high), Some(swing_low),
                                     Some(midline), <<>>, <<>>, <<>>, Some(latest_price)))
        @@ ("4H" :> TimeframeContext("None", "None", bos, None, None, None,
                <<ObZone("bullish", RatScale(midline, 98, 100), RatScale(midline, 102, 100),
                         "decisional")>>,
                <<FvgZone(RatScale(midline, 101, 100), RatScale(midline, 102, 100), "active")>>,
                <<>>, None))
        @@ ("1H" :> TimeframeContext("None", "None", bos, None, None, None,
                <<ObZone("bullish", RatScale(price, 995, 1000), RatScale(price, 1005, 1000),
                         "fresh")>>,
                <<FvgZone(RatScale(price, 1002, 1000), RatScale(price, 1004, 1000), "valid")>>,
                <<>>, None))
        @@ ("15m" :> TimeframeContext("None", "None", bos, None, None, None, <<>>, <<>>,
                <<LiquidityLevel("EQH", RatScale(price, 1005, 1000)),
                  LiquidityLevel("EQL", RatScale(price, 995, 1000))>>,
                Some(latest_price))))

-----------------------------------------------------------------------------
(* Session classifier *)

Hours == 0..23

\* variant: hour 20 still counts as NY
detect_session_closed(h) ==
    IF 12 <= h /\ h <= 20 THEN "NY" ELSE IF 7 <= h /\ h < 12 THEN "LDN" ELSE "ASIA"

detect_session(h) ==
    IF 12 <= h /\ h < 20 THEN "NY" ELSE IF 7 <= h /\ h < 12 THEN "LDN" ELSE "ASIA"

-----------------------------------------------------------------------------
(* JSON values as the heatmap response carries them: a tag and a payload.  *)
(* A string is its sequence of characters, an object a function of its     *)
(* keys.                                                                   *)

JNull == <<"null">>
JBool(b) == <<"bool", b>>
JNum(n) == <<"num", n>>
JStr(chars) == <<"str", chars>>
JList(items) == <<"list", items>>
JObj(f) == <<"obj", f>>

Short == <<"s", "h", "o", "r", "t">>
Long == <<"l", "o", "n", "g">>

\* Python's truth value of a parsed JSON value
Truthy(v) ==
    CASE v[1] = "null" -> FALSE
      [] v[1] = "bool" -> v[2]
      [] v[1] = "num" -> v[2] # 0
      [] v[1] = "str" -> v[2] # <<>>
      [] v[1] = "list" -> v[2] # <<>>
      [] v[1] = "obj" -> DOMAIN v[2] # {}

\* dict.get(key, default)
Get(f, key, default) == IF key \in DOMAIN f THEN f[key] ELSE default

Digits == ("0" :> 0) @@ ("1" :> 1) @@ ("2" :> 2) @@ ("3" :> 3) @@ ("4" :> 4)
          @@ ("5" :> 5) @@ ("6" :> 6) @@ ("7" :> 7) @@ ("8" :> 8) @@ ("9" :> 9)

RECURSIVE DigitsValue(_)
DigitsValue(chars) ==
    IF chars = <<>> THEN 0
    ELSE 10 * DigitsValue(SubSeq(chars, 1, Len(chars) - 1)) + Digits[chars[Len(chars)]]

\* float(v): a number converts, True/False are 1/0, a string of decimal digits is
\* parsed, any other string is a ValueError, None/list/dict a TypeError
Float(v) ==
    CASE v[1] = "num" -> Ok(v[2])
      [] v[1] = "bool" -> Ok(IF v[2] THEN 1 ELSE 0)
      [] v[1] = "str" ->
            IF v[2] # <<>> /\ \A k \in DOMAIN v[2] : v[2][k] \in DOMAIN Digits
            THEN Ok(DigitsValue(v[2])) ELSE Raise("ValueError")
      [] OTHER -> Raise("TypeError")

CoinglassCluster(side, price, size_usd) == [side |-> side, price |-> price, size_usd |-> size_usd]
CoinglassLevels(N1, N2, N3) == [N1 |-> N1, N2 |-> N2, N3 |-> N3]
CoinglassData(heatmap, liquidations) == [heatmap |-> heatmap, liquidations |-> liquidations]

\* the body of the per-entry try: Some(cluster), or None when it raised
EntryCluster(i) ==
    IF i[1] # "obj" THEN None
    ELSE LET price == Float(Get(i[2], "price", JNum(0)))
             size == Float(Get(i[2], "size", JNum(0)))
         IN  IF IsOk(price) /\ IsOk(size)
             THEN Some(CoinglassCluster(
                      IF Get(i[2], "side", JNull) = JStr(Short) THEN "short" ELSE "long",
                      price[2], size[2]))
             ELSE None

\* variant: the first entry that raises ends the loop
RECURSIVE ParseEntries_abort(_)
ParseEntries_abort(items) ==
    IF items = <<>> \/ EntryCluster(Head(items)) = None THEN <<>>
    ELSE EntryCluster(Head(items)) \o ParseEntries_abort(Tail(items))

RECURSIVE ParseEntries(_)
ParseEntries(items) ==
    IF items = <<>> THEN <<>> ELSE EntryCluster(Head(items)) \o ParseEntries(Tail(items))

\* what the heatmap service answered: the GET raised, or a status and a body that is
\* either no JSON at all or a JSON value
Exception == <<"exception">>
Response(status, body) == <<"response", status, body>>
Invalid == <<"invalid">>
Json(v) == <<"json", v>>

\* variant: the body is read whatever the status
HeatmapData_anystatus(outcome) ==
    IF outcome[1] = "exception" THEN JList(<<>>)
    ELSE IF outcome[3][1] = "invalid" THEN JList(<<>>)
    ELSE IF outcome[3][2][1] # "obj" THEN JList(<<>>)
    ELSE Get(outcome[3][2][2], "data", JList(<<>>))

\* lines 133-136: the value bound to data
HeatmapData(outcome) ==
    IF outcome[1] = "exception" THEN JList(<<>>)
    ELSE IF outcome[2] # 200 THEN JList(<<>>)
    ELSE IF outcome[3][1] = "invalid" THEN JList(<<>>)
    ELSE IF outcome[3][2][1] # "obj" THEN JList(<<>>)
    ELSE Get(outcome[3][2][2], "data", JList(<<>>))

\* variant: no slice, every entry is parsed
Top3_all(items) == items

\* data[:3] of a list
Top3(items) == SubSeq(items, 1, Min2(Len(items), 3))

fetch_coinglass_clusters(outcome) ==
    LET data == HeatmapData(outcome)
        empty == CoinglassLevels(<<>>, <<>>, <<>>)
    IN  IF ~Truthy(data) THEN Ok(CoinglassData(empty, empty))
        ELSE CASE data[1] = "list" ->
                    Ok(CoinglassData(CoinglassLevels(<<>>, <<>>, ParseEntries(Top3(data[2]))),
                                     empty))
               [] data[1] = "str" ->
                    \* every item is a one-character string: each .get raises and is passed
                    Ok(CoinglassData(empty, empty))
               [] OTHER -> Raise("TypeError")

-----------------------------------------------------------------------------
(* Inputs *)

Prices == 1..MaxPrice

\* daily candles vary in high and low (high < low included), the others in close
DailySeries == SeqsUpTo({Candle(h, l, l) : h \in Prices, l \in Prices}, MaxDaily)
H4Series == SeqsUpTo({Candle(c, c, c) : c \in Prices}, Max4h)
M15Series == SeqsUpTo({Candle(c, c, c) : c \in Prices}, Max15m)
H1Samples == {<<>>, <<Candle(1, 1, 1)>>}
DailySample == <<Candle(2, 1, 1)>>
H4Sample == <<Candle(1, 1, 1), Candle(2, 2, 2)>>

\* the series a request may be answered with: none, and two readings of a market
\* (daily highs 100,110,105 and lows 90,95,92; 4h closes 98,102,99,101)
Fetched1d == {<<>>, <<Candle(100, 90, 95), Candle(110, 95, 100), Candle(105, 92, 97)>>}
Fetched4h == {<<>>, <<Candle(98, 98, 98), Candle(102, 102, 102), Candle(99, 99, 99),
                      Candle(101, 101, 101)>>}
Fetched1h == {<<>>, <<Candle(99, 96, 97)>>}
Fetched15m == {<<>>, <<Candle(99, 96, 97)>>, <<Candle(99, 96, 97), Candle(105, 97, 104)>>}

Entry(side, price, size) == JObj(("side" :> side) @@ ("price" :> price) @@ ("size" :> size))

ValidEntries ==
    {Entry(JStr(Short), JNum(1), JNum(10)),
     Entry(JStr(Long), JNum(2), JNum(20))}

Entries ==
    ValidEntries \cup
    {JObj(("side" :> JStr(Short)) @@ ("size" :> JNum(10))),      \* no price
     JObj(("price" :> JNum(2)) @@ ("size" :> JNum(20))),         \* no side
     JObj(("side" :> JStr(Short)) @@ ("price" :> JNum(1))),      \* no size
     Entry(JStr(Long), JStr(<<"a", "b", "c">>), JNum(20)),       \* price is no number
     Entry(JStr(Short), JNum(1), JNull),                         \* size is null
     Entry(JStr(<<"b", "u", "y">>), JStr(<<"1", "5">>), JNum(10)),
     JNum(7)}                                                    \* no object

DataValues(n) ==
    {JNull, JNum(0), JNum(5), JBool(TRUE), JStr(<<>>), JStr(<<"x", "y">>),
     JObj(<<>>), JObj("k" :> JNum(1))}
    \cup {JList(items) : items \in SeqsUpTo(Entries, n)}

Bodies(n) ==
    {Invalid, Json(JNull), Json(JList(<<>>)), Json(JObj(<<>>))}
    \cup {Json(JObj("data" :> d)) : d \in DataValues(n)}

Outcomes(n) == {Exception} \cup {Response(st, b) : st \in {200, 500}, b \in Bodies(n)}

-----------------------------------------------------------------------------
(* get_market_context *)

Init ==
    /\ pc = "fetch_1d"
    /\ include_coinglass \in BOOLEAN
    /\ calls = <<>>
    /\ raised = None
    /\ o1 = None /\ o4 = None /\ oh = None /\ o15 = None
    /\ ctx = None
    /\ hm = None
    /\ cg = None
    /\ hour = None
    /\ response = None

\* an exception nobody catches ends the request
Fault(call) ==
    /\ pc' = "fault"
    /\ raised' = Some(call)

Fetch1d ==
    /\ pc = "fetch_1d"
    /\ calls' = Append(calls, "1d")
    /\ \/ \E s \in Fetched1d : o1' = Some(s) /\ pc' = "fetch_4h" /\ UNCHANGED raised
       \/ Fault("1d") /\ UNCHANGED o1
    /\ UNCHANGED <<include_coinglass, o4, oh, o15, ctx, hm, cg, hour, response>>

\* variant: an exception of the 4h fetch is swallowed and the request goes on
Fetch4h_swallow ==
    /\ pc = "fetch_4h"
    /\ calls' = Append(calls, "4h")
    /\ \/ \E s \in Fetched4h : o4' = Some(s) /\ pc' = "fetch_1h" /\ UNCHANGED raised
       \/ o4' = Some(<<>>) /\ pc' = "fetch_1h" /\ raised' = Some("4h")
    /\ UNCHANGED <<include_coinglass, o1, oh, o15, ctx, hm, cg, hour, response>>

Fetch4h ==
    /\ pc = "fetch_4h"
    /\ calls' = Append(calls, "4h")
    /\ \/ \E s \in Fetched4h : o4' = Some(s) /\ pc' = "fetch_1h" /\ UNCHANGED raised
       \/ Fault("4h") /\ UNCHANGED o4
    /\ UNCHANGED <<include_coinglass, o1, oh, o15, ctx, hm, cg, hour, response>>

Fetch1h ==
    /\ pc = "fetch_1h"
    /\ calls' = Append(calls, "1h")
    /\ \/ \E s \in Fetched1h : oh' = Some(s) /\ pc' = "fetch_15m" /\ UNCHANGED raised
       \/ Fault("1h") /\ UNCHANGED oh
    /\ UNCHANGED <<include_coinglass, o1, o4, o15, ctx, hm, cg, hour, response>>

Fetch15m ==
    /\ pc = "fetch_15m"
    /\ calls' = Append(calls, "15m")
    /\ \/ \E s \in Fetched15m : o15' = Some(s) /\ pc' = "detect" /\ UNCHANGED raised
       \/ Fault("15m") /\ UNCHANGED o15
    /\ UNCHANGED <<include_coinglass, o1, o4, oh, ctx, hm, cg, hour, response>>

Detect ==
    /\ pc = "detect"
    /\ LET r == detect_structure_and_liquidity(o1[1], o4[1], oh[1], o15[1])
       IN  /\ ctx' = Some(r)
           /\ IF IsOk(r) THEN pc' = "coinglass" /\ UNCHANGED raised ELSE Fault("detect")
    /\ UNCHANGED <<include_coinglass, calls, o1, o4, oh, o15, hm, cg, hour, response>>

\* variant: the cluster fetcher is called whatever include_coinglass says
Coinglass_always ==
    /\ pc = "coinglass"
    /\ \E outcome \in Outcomes(1) :
          LET r == fetch_coinglass_clusters(outcome)
          IN  /\ calls' = Append(calls, "heatmap")
              /\ hm' = Some(outcome)
              /\ IF IsOk(r)
                 THEN cg' = Some(r[2]) /\ pc' = "respond" /\ UNCHANGED raised
                 ELSE Fault("heatmap") /\ UNCHANGED cg
    /\ UNCHANGED <<include_coinglass, o1, o4, oh, o15, ctx, hour, response>>

Coinglass ==
    /\ pc = "coinglass"
    /\ \/ /\ include_coinglass
          /\ \E outcome \in Outcomes(1) :
                LET r == fetch_coinglass_clusters(outcome)
                IN  /\ calls' = Append(calls, "heatmap")
                    /\ hm' = Some(outcome)
                    /\ IF IsOk(r)
                       THEN cg' = Some(r[2]) /\ pc' = "respond" /\ UNCHANGED raised
                       ELSE Fault("heatmap") /\ UNCHANGED cg
       \/ /\ ~include_coinglass
          /\ cg' = None /\ pc' = "respond"
          /\ UNCHANGED <<calls, hm, raised>>
    /\ UNCHANGED <<include_coinglass, o1, o4, oh, o15, ctx, hour, response>>

MccMarketContext(session, timeframes, coinglass) ==
    [session |-> session, timeframes |-> timeframes, coinglass |-> coinglass]

Respond ==
    /\ pc = "respond"
    /\ \E h \in Hours :
          /\ hour' = Some(h)
          /\ response' = Some(MccMarketContext(detect_session(h), ctx[1][2], cg))
    /\ pc' = "done"
    /\ UNCHANGED <<include_coinglass, calls, raised, o1, o4, oh, o15, ctx, hm, cg>>

Next == Fetch1d \/ Fetch4h \/ Fetch1h \/ Fetch15m \/ Detect \/ Coinglass \/ Respond

Spec == Init /\ [][Next]_vars

-----------------------------------------------------------------------------
(* The structure detector applied to bounded series *)

InitDetect ==
    /\ pc = "detect_call"
    /\ include_coinglass = FALSE
    /\ calls = <<>>
    /\ raised = None
    /\ \E d \in DailySeries, h4 \in H4Series :
          /\ d = DailySample \/ h4 = H4Sample
          /\ o1 = Some(d)
          /\ o4 = Some(h4)
    /\ oh \in {Some(s) : s \in H1Samples}
    /\ o15 \in {Some(s) : s \in M15Series}
    /\ ctx = None
    /\ hm = None
    /\ cg = None
    /\ hour = None
    /\ response = None

DetectCall ==
    /\ pc = "detect_call"
    /\ ctx' = Some(detect_structure_and_liquidity(o1[1], o4[1], oh[1], o15[1]))
    /\ pc' = "detect_returned"
    /\ UNCHANGED <<include_coinglass, calls, raised, o1, o4, oh, o15, hm, cg, hour, response>>

SpecDetect == InitDetect /\ [][DetectCall]_vars

-----------------------------------------------------------------------------
(* The cluster fetcher applied to bounded answers of the heatmap service *)

InitHeatmap ==
    /\ pc = "heatmap_call"
    /\ include_coinglass = TRUE
    /\ calls = <<>>
    /\ raised = None
    /\ o1 = None /\ o4 = None /\ oh = None /\ o15 = None
    /\ ctx = None
    /\ hm \in {Some(outcome) : outcome \in Outcomes(MaxEntries)}
    /\ cg = None
    /\ hour = None
    /\ response = None

HeatmapCall ==
    /\ pc = "heatmap_call"
    /\ calls' = Append(calls, "heatmap")
    /\ LET r == fetch_coinglass_clusters(hm[1])
       IN  IF IsOk(r)
           THEN cg' = Some(r[2]) /\ pc' = "heatmap_returned" /\ UNCHANGED raised
           ELSE cg' = None /\ pc' = "heatmap_raised" /\ raised' = Some("heatmap")
    /\ UNCHANGED <<include_coinglass, o1, o4, oh, o15, ctx, hm, hour, response>>

SpecHeatmap == InitHeatmap /\ [][HeatmapCall]_vars

-----------------------------------------------------------------------------
(* Properties of the request handler, under Spec *)

HeatmapFailed ==
    /\ hm # None
    /\ IF hm[1][1] = "exception" THEN TRUE ELSE hm[1][2] # 200

\* C1: when the heatmap call raises or answers with a status other than 200, the
\* cluster fetcher returns a CoinglassData whose heatmap.N3 is empty, the request is
\* not faulted and its response, once returned, has coinglass.heatmap.N3 = [].
C1_FailureDegrades ==
    HeatmapFailed =>
        /\ pc \in {"respond", "done"}
        /\ raised = None
        /\ cg # None
        /\ cg[1].heatmap.N3 = <<>>
        /\ pc = "respond" => ENABLED Respond
        /\ pc = "done" =>
              /\ response # None
              /\ response[1].coinglass # None
              /\ response[1].coinglass[1].heatmap.N3 = <<>>

C1_Witness ==
    /\ pc = "done"
    /\ hm # None
    /\ hm[1][1] = "response"
    /\ hm[1][2] = 500
    /\ hm[1][3] = Json(JObj("data" :> JList(<<Entry(JStr(Short), JNum(1), JNum(10))>>)))
    /\ response[1].coinglass[1].heatmap.N3 = <<>>

\* C2: no answer of the heatmap service fails the request: an exception never
\* escapes the cluster fetcher, so a request whose four fetches and structure
\* detection succeeded is never faulted by the heatmap call.
C2_HeatmapNeverFaults ==
    /\ raised # Some("heatmap")
    /\ hm # None => pc \in {"respond", "done"}

\* C5: a request with include_coinglass = false never calls the heatmap service and
\* its response has a null coinglass field; every returned response has a non-null
\* coinglass field exactly when include_coinglass = true.
C5_CoinglassIffRequested ==
    /\ ~include_coinglass =>
          /\ \A k \in DOMAIN calls : calls[k] # "heatmap"
          /\ hm = None
          /\ cg = None
    /\ pc = "done" => (response[1].coinglass # None <=> include_coinglass)

C5_Witness ==
    /\ pc = "done"
    /\ ~include_coinglass
    /\ response[1].coinglass = None
    /\ calls = <<"1d", "4h", "1h", "15m">>

CallOrder == <<"1d", "4h", "1h", "15m", "heatmap">>

IsPrefix(s, t) == Len(s) <= Len(t) /\ SubSeq(t, 1, Len(s)) = s

\* C6: the four exchange fetches are issued one at a time in the order 1d, 4h, 1h,
\* 15m; when one raises, the request ends as a fault without any response, the fetch
\* is not repeated, and no later fetch and no heatmap call is issued.
C6_FetchOrderAndFault ==
    /\ IsPrefix(calls, CallOrder)
    /\ pc = "fetch_1d" => calls = <<>>
    /\ pc = "fetch_4h" => calls = <<"1d">>
    /\ pc = "fetch_1h" => calls = <<"1d", "4h">>
    /\ pc = "fetch_15m" => calls = <<"1d", "4h", "1h">>
    /\ pc \in {"detect", "coinglass"} => calls = <<"1d", "4h", "1h", "15m">>
    /\ (raised # None /\ raised[1] \in {"1d", "4h", "1h", "15m"}) =>
          /\ pc = "fault"
          /\ response = None
          /\ cg = None /\ hm = None /\ ctx = None
          /\ calls[Len(calls)] = raised[1]
    /\ pc = "fault" => (response = None /\ ~ENABLED Next)

C6_Witness ==
    /\ pc = "fault"
    /\ raised = Some("4h")
    /\ calls = <<"1d", "4h">>
    /\ o1 # None
    /\ response = None

NYHours == {12, 13, 14, 15, 16, 17, 18, 19}
LDNHours == {7, 8, 9, 10, 11}

\* C10: the session of a response is "NY" for the UTC hours 12..19, "LDN" for 7..11
\* and "ASIA" for every other hour; 12 gives NY, 7 gives LDN, 6 and 20 give ASIA.
C10_SessionByHour ==
    /\ pc = "done" =>
          /\ hour[1] \in NYHours => response[1].session = "NY"
          /\ hour[1] \in LDNHours => response[1].session = "LDN"
          /\ hour[1] \in Hours \ (NYHours \cup LDNHours) => response[1].session = "ASIA"
          /\ hour[1] = 12 => response[1].session = "NY"
          /\ hour[1] = 7 => response[1].session = "LDN"
          /\ hour[1] \in {6, 20} => response[1].session = "ASIA"

C10_Witness ==
    /\ pc = "done"
    /\ hour = Some(20)
    /\ response[1].session = "ASIA"

-----------------------------------------------------------------------------
(* Properties of the structure detector, under SpecDetect *)

Returned == pc = "detect_returned"

NonEmptyInputs == o1[1] # <<>> /\ o4[1] # <<>> /\ o15[1] # <<>>

LatestClose == o15[1][Len(o15[1])][IdxClose]

Closes4h == [k \in DOMAIN o4[1] |-> o4[1][k][IdxClose]]

\* the j-th smallest 4h close, by rank
Ranked(j) ==
    CHOOSE v \in {Closes4h[k] : k \in DOMAIN Closes4h} :
        /\ Cardinality({k \in DOMAIN Closes4h : Closes4h[k] < v}) < j
        /\ j <= Cardinality({k \in DOMAIN Closes4h : Closes4h[k] <= v})

\* twice the median of the 4h closes
TwiceMedian4h ==
    LET n == Len(Closes4h)
    IN  IF n % 2 = 1 THEN 2 * Ranked((n + 1) \div 2)
        ELSE Ranked(n \div 2) + Ranked(n \div 2 + 1)

Ctx1D == ctx[1][2]["1D"]

DailyHighs == {o1[1][k][IdxHigh] : k \in DOMAIN o1[1]}
DailyLows == {o1[1][k][IdxLow] : k \in DOMAIN o1[1]}

\* C8: on non-empty series the 1D bias is "discount_LONG" exactly when the last 15m
\* close is strictly less than (max daily high + min daily low) / 2, else
\* "premium_SHORT"; equality gives "premium_SHORT".
C8_BiasByMidline ==
    (Returned /\ NonEmptyInputs) =>
        /\ IsOk(ctx[1])
        /\ \E hi \in DailyHighs, lo \in DailyLows :
              /\ \A x \in DailyHighs : x <= hi
              /\ \A y \in DailyLows : lo <= y
              /\ Ctx1D.bias = (IF 2 * LatestClose < hi + lo
                               THEN "discount_LONG" ELSE "premium_SHORT")
              /\ 2 * LatestClose = hi + lo => Ctx1D.bias = "premium_SHORT"

C8_Witness ==
    /\ Returned /\ NonEmptyInputs
    /\ Len(o1[1]) = 2
    /\ DailyHighs = {1, 3}
    /\ DailyLows = {1}
    /\ LatestClose = 2
    /\ Ctx1D.bias = "premium_SHORT"

WellFormed(series) == \A k \in DOMAIN series : series[k][IdxHigh] >= series[k][IdxLow]

\* C9: for well-formed series (every candle's high >= its low) with a non-empty daily
\* series, the 1D context returned has swing_low <= midline_50 <= swing_high.
C9_MidlineBetweenSwings ==
    (/\ Returned
     /\ IsOk(ctx[1])
     /\ o1[1] # <<>>
     /\ WellFormed(o1[1]) /\ WellFormed(o4[1]) /\ WellFormed(oh[1]) /\ WellFormed(o15[1])) =>
        /\ Ctx1D.swing_low[1] * Ctx1D.midline_50[1].den <= Ctx1D.midline_50[1].num
        /\ Ctx1D.midline_50[1].num <= Ctx1D.swing_high[1] * Ctx1D.midline_50[1].den
        /\ Ctx1D.midline_50[1].den > 0

C9_Witness ==
    /\ Returned /\ IsOk(ctx[1])
    /\ WellFormed(o1[1])
    /\ Len(o1[1]) = 2
    /\ Ctx1D.swing_low = Some(1)
    /\ Ctx1D.swing_high = Some(2)
    /\ Ctx1D.midline_50 = Some(Rat(3, 2))

-----------------------------------------------------------------------------
(* Properties of the cluster fetcher, under SpecHeatmap *)

Called == pc # "heatmap_call"

\* the service answered 200 with an object whose "data" is a list
HasDataList ==
    /\ hm[1][1] = "response"
    /\ hm[1][2] = 200
    /\ hm[1][3][1] = "json"
    /\ hm[1][3][2][1] = "obj"
    /\ "data" \in DOMAIN hm[1][3][2][2]
    /\ hm[1][3][2][2]["data"][1] = "list"

DataList == hm[1][3][2][2]["data"][2]

\* the entries being parsed
Parsed == SubSeq(DataList, 1, IF Len(DataList) < 3 THEN Len(DataList) ELSE 3)

Numeric(v) ==
    \/ v[1] = "num"
    \/ v[1] = "str" /\ v[2] # <<>> /\ \A k \in DOMAIN v[2] : v[2][k] \in DOMAIN Digits

NumberOf(v) == IF v[1] = "num" THEN v[2] ELSE DigitsValue(v[2])

Has(i, key) == i[1] = "obj" /\ key \in DOMAIN i[2]

SideOf(i) == IF Has(i, "side") /\ i[2]["side"] = JStr(Short) THEN "short" ELSE "long"

Malformed(i) ==
    \/ ~Has(i, "side") \/ ~Has(i, "price") \/ ~Has(i, "size")
    \/ ~Numeric(i[2]["price"])
    \/ ~Numeric(i[2]["size"])

WellFormedEntry(i) == ~Malformed(i)

\* C3 as stated: every malformed entry (a side, price or size field missing, or a
\* price or size that is no number) produces no cluster, and every other parsed entry
\* produces its cluster.
C3_MalformedSkipped ==
    (Called /\ HasDataList) =>
        /\ pc = "heatmap_returned"
        /\ LET kept == SelectSeq(Parsed, WellFormedEntry)
           IN  cg[1].heatmap.N3 =
                  [k \in 1..Len(kept) |->
                      [side |-> SideOf(kept[k]),
                       price |-> NumberOf(kept[k][2]["price"]),
                       size_usd |-> NumberOf(kept[k][2]["size"])]]

Unconvertible(i) ==
    \/ i[1] # "obj"
    \/ Has(i, "price") /\ ~Numeric(i[2]["price"])
    \/ Has(i, "size") /\ ~Numeric(i[2]["size"])

Convertible(i) == ~Unconvertible(i)

\* C3 as amended: a parsed entry that is no object, or whose price or size is present
\* and not convertible to a number, produces no cluster; every other parsed entry
\* produces its cluster, in which a missing price or size is 0 and a missing side is
\* "long"; the fetcher returns whatever entries are bad.
C3_UnconvertibleSkipped ==
    (Called /\ HasDataList) =>
        /\ pc = "heatmap_returned"
        /\ LET kept == SelectSeq(Parsed, Convertible)
           IN  cg[1].heatmap.N3 =
                  [k \in 1..Len(kept) |->
                      [side |-> SideOf(kept[k]),
                       price |-> IF Has(kept[k], "price")
                                 THEN NumberOf(kept[k][2]["price"]) ELSE 0,
                       size_usd |-> IF Has(kept[k], "size")
                                    THEN NumberOf(kept[k][2]["size"]) ELSE 0]]

C3_Witness ==
    /\ pc = "heatmap_returned"
    /\ HasDataList
    /\ Len(DataList) = 3
    /\ DataList[1] = Entry(JStr(Long), JStr(<<"a", "b", "c">>), JNum(20))
    /\ DataList[2] = JObj(("side" :> JStr(Short)) @@ ("size" :> JNum(10)))
    /\ DataList[3] = Entry(JStr(Long), JNum(2), JNum(20))
    /\ cg[1].heatmap.N3 = <<CoinglassCluster("short", 0, 10), CoinglassCluster("long", 2, 20)>>

ValidEntry(i) ==
    /\ Has(i, "side") /\ Has(i, "price") /\ Has(i, "size")
    /\ i[2]["side"] \in {JStr(Short), JStr(Long)}
    /\ i[2]["price"][1] = "num"
    /\ i[2]["size"][1] = "num"

\* C4: a 200 answer whose data list holds n valid entries gives exactly min(n, 3)
\* clusters in heatmap.N3, the first min(n, 3) entries in input order; heatmap.N1,
\* heatmap.N2 and the three liquidations buckets are empty.
C4_FirstThreeInOrder ==
    /\ (Called /\ HasDataList /\ \A k \in DOMAIN DataList : ValidEntry(DataList[k])) =>
          /\ pc = "heatmap_returned"
          /\ Len(cg[1].heatmap.N3) = (IF Len(DataList) < 3 THEN Len(DataList) ELSE 3)
          /\ \A k \in DOMAIN cg[1].heatmap.N3 :
                /\ cg[1].heatmap.N3[k].side =
                      (IF DataList[k][2]["side"] = JStr(Short) THEN "short" ELSE "long")
                /\ cg[1].heatmap.N3[k].price = DataList[k][2]["price"][2]
                /\ cg[1].heatmap.N3[k].size_usd = DataList[k][2]["size"][2]
    /\ pc = "heatmap_returned" =>
          /\ cg[1].heatmap.N1 = <<>> /\ cg[1].heatmap.N2 = <<>>
          /\ cg[1].liquidations = CoinglassLevels(<<>>, <<>>, <<>>)

C4_Witness ==
    /\ pc = "heatmap_returned"
    /\ HasDataList
    /\ Len(DataList) = 4
    /\ \A k \in DOMAIN DataList : ValidEntry(DataList[k])
    /\ DataList[1] # DataList[2]
    /\ Len(cg[1].heatmap.N3) = 3
    /\ cg[1].heatmap.N3[1].price = DataList[1][2]["price"][2]
    /\ cg[1].heatmap.N3[2].price = DataList[2][2]["price"][2]

====
